---- MODULE Spec2Model ----
(***************************************************************************)
(* Model of src/CourseRegistry/courseregistry.go: the Registry of students *)
(* and its operations AddStudent, EnrollCourse, RemoveCourse, ListStudents *)
(* and CoursesCount.                                                       *)
(*                                                                         *)
(* A Go slice is a header (pointer, length, capacity) over a backing       *)
(* array, and the registry stores the headers it is given: the model keeps *)
(* the backing arrays in a heap, so that two stored course lists that      *)
(* share an array behave as they do in Go.                                 *)
(***************************************************************************)
EXTENDS Integers, Sequences, FiniteSets, TLC

\* ------------------------------------------------------------- bounds
\* Student IDs, student names and course names the callers use.
IDs == {1, 2}
Names == {"", "Alice"}
CourseNames == {"", "Go", "DB"}
\* Longest course list a call may produce or a caller may pass.
MaxLen == 2
\* Largest capacity of a backing array a caller allocates itself.
MaxCap == 2
\* Longest initial course list of a student a caller builds itself.
MaxInitLen == 2

\* Heap addresses: one array per student, plus the arrays one call allocates.
Addr == 1..(Cardinality(IDs) + MaxLen + 2)

VARIABLES
    Students,   \* Registry.Students: ID -> Student
    heap,       \* backing arrays of the course slices: Addr -> array (<<>>: free)
    ret,        \* the last call and the error it returned
    added,      \* history: ID -> name of every AddStudent call that succeeded
    trail       \* history: the student last added with no courses, and the
                \* courses enrolled for it since, while no other call changed
                \* the registry

vars == <<Students, heap, ret, added, trail>>

\* ------------------------------------------------------------- errors
Nil == "nil"
DuplicateID == "student ID already exists"
EmptyName == "student name cannot be empty"
StudentNotFound == "student does not exist"
EmptyCourseName == "course name cannot be empty"
AlreadyEnrolled == "student is already enrolled in this course"
CourseNotFound == "course not found for this student"

\* ------------------------------------------------------------- slices
MinOf(S) == CHOOSE x \in S : \A y \in S : x <= y
MaxOf(S) == CHOOSE x \in S : \A y \in S : x >= y

\* Courses []string: nil, or a header over the array at arr (0: no storage).
NilSlice == [nil |-> TRUE, arr |-> 0, len |-> 0]
\* []string{}
EmptySlice == [nil |-> FALSE, arr |-> 0, len |-> 0]

CapOf(h, sl) == IF sl.arr = 0 THEN 0 ELSE Len(h[sl.arr])

\* The strings a range loop over the slice reads.
Elems(h, sl) == [k \in 1..sl.len |-> h[sl.arr][k]]

Used(h) == {a \in Addr : h[a] # <<>>}

\* Go's capacity after appending one element to a full slice of capacity cap.
GrowCap(cap) == IF cap = 0 THEN 1 ELSE 2 * cap

\* append(sl, c): in place when the capacity allows, else into a new array.
AppendSlice(h, sl, c) ==
    IF sl.len < CapOf(h, sl)
    THEN [heap |-> [h EXCEPT ![sl.arr][sl.len + 1] = c],
          sl   |-> [nil |-> FALSE, arr |-> sl.arr, len |-> sl.len + 1]]
    ELSE LET a == MinOf(Addr \ Used(h))
             old == Elems(h, sl)
         IN [heap |-> [h EXCEPT ![a] =
                          [k \in 1..GrowCap(CapOf(h, sl)) |->
                              IF k <= sl.len THEN old[k]
                              ELSE IF k = sl.len + 1 THEN c ELSE ""]],
             sl   |-> [nil |-> FALSE, arr |-> a, len |-> sl.len + 1]]

Put(f, k, v) == [x \in DOMAIN f \cup {k} |-> IF x = k THEN v ELSE f[x]]

\* ------------------------------------------------------------- registry
\* NewRegistry
NewRegistry == [students |-> <<>>, heap |-> [a \in Addr |-> <<>>]]

\* AddStudent with the name checked before the ID.
AddStudentF_NameFirst(reg, student) ==
    IF student.Name = ""
    THEN [reg |-> reg, err |-> EmptyName]
    ELSE IF student.ID \in DOMAIN reg.students
    THEN [reg |-> reg, err |-> DuplicateID]
    ELSE [reg |-> [reg EXCEPT !.students = Put(@, student.ID, student)],
          err |-> Nil]

\* AddStudent without the check of the name.
AddStudentF_NoNameCheck(reg, student) ==
    IF student.ID \in DOMAIN reg.students
    THEN [reg |-> reg, err |-> DuplicateID]
    ELSE [reg |-> [reg EXCEPT !.students = Put(@, student.ID, student)],
          err |-> Nil]

\* AddStudent returning one error for both of its failures.
AddStudentF_OneError(reg, student) ==
    IF student.ID \in DOMAIN reg.students \/ student.Name = ""
    THEN [reg |-> reg, err |-> DuplicateID]
    ELSE [reg |-> [reg EXCEPT !.students = Put(@, student.ID, student)],
          err |-> Nil]

\* AddStudent storing a nil course slice as it is.
AddStudentF_KeepsNil(reg, student) ==
    IF student.ID \in DOMAIN reg.students
    THEN [reg |-> reg, err |-> DuplicateID]
    ELSE IF student.Name = ""
    THEN [reg |-> reg, err |-> EmptyName]
    ELSE [reg |-> [reg EXCEPT !.students = Put(@, student.ID, student)],
          err |-> Nil]

\* AddStudent: the registry after the call and the error returned.
AddStudentF(reg, student) ==
    IF student.ID \in DOMAIN reg.students
    THEN [reg |-> reg, err |-> DuplicateID]
    ELSE IF student.Name = ""
    THEN [reg |-> reg, err |-> EmptyName]
    ELSE LET s == IF student.Courses.nil
                  THEN [student EXCEPT !.Courses = EmptySlice]
                  ELSE student
         IN [reg |-> [reg EXCEPT !.students = Put(@, student.ID, s)],
             err |-> Nil]

\* The range loop of EnrollCourse: is course among the student's courses?
Enrolled(cs, course) == \E k \in 1..Len(cs) : cs[k] = course

\* EnrollCourse without the loop that looks for the course.
EnrollCourseF_NoEnrolledCheck(reg, studentID, course) ==
    IF studentID \notin DOMAIN reg.students
    THEN [reg |-> reg, err |-> StudentNotFound]
    ELSE IF course = ""
    THEN [reg |-> reg, err |-> EmptyCourseName]
    ELSE LET r == AppendSlice(reg.heap, reg.students[studentID].Courses, course)
         IN [reg |-> [students |-> [reg.students EXCEPT
                                       ![studentID].Courses = r.sl],
                      heap |-> r.heap],
             err |-> Nil]

\* EnrollCourse appending and storing before it looks for the course.
EnrollCourseF_StoreFirst(reg, studentID, course) ==
    IF studentID \notin DOMAIN reg.students
    THEN [reg |-> reg, err |-> StudentNotFound]
    ELSE IF course = ""
    THEN [reg |-> reg, err |-> EmptyCourseName]
    ELSE LET r == AppendSlice(reg.heap, reg.students[studentID].Courses, course)
         IN [reg |-> [students |-> [reg.students EXCEPT
                                       ![studentID].Courses = r.sl],
                      heap |-> r.heap],
             err |-> IF Enrolled(Elems(reg.heap, reg.students[studentID].Courses),
                                 course)
                     THEN AlreadyEnrolled ELSE Nil]

\* EnrollCourse appending to its copy of the student and not storing it back.
EnrollCourseF_NotStored(reg, studentID, course) ==
    IF studentID \notin DOMAIN reg.students
    THEN [reg |-> reg, err |-> StudentNotFound]
    ELSE IF course = ""
    THEN [reg |-> reg, err |-> EmptyCourseName]
    ELSE IF Enrolled(Elems(reg.heap, reg.students[studentID].Courses), course)
    THEN [reg |-> reg, err |-> AlreadyEnrolled]
    ELSE [reg |-> [reg EXCEPT !.heap =
                      AppendSlice(reg.heap, reg.students[studentID].Courses,
                                  course).heap],
          err |-> Nil]

\* EnrollCourse: the registry after the call and the error returned.
EnrollCourseF(reg, studentID, course) ==
    IF studentID \notin DOMAIN reg.students
    THEN [reg |-> reg, err |-> StudentNotFound]
    ELSE IF course = ""
    THEN [reg |-> reg, err |-> EmptyCourseName]
    ELSE LET student == reg.students[studentID]
         IN IF Enrolled(Elems(reg.heap, student.Courses), course)
            THEN [reg |-> reg, err |-> AlreadyEnrolled]
            ELSE LET r == AppendSlice(reg.heap, student.Courses, course)
                 IN [reg |-> [students |-> [reg.students EXCEPT
                                               ![studentID].Courses = r.sl],
                              heap |-> r.heap],
                     err |-> Nil]

\* The loop of RemoveCourse dropping the first match only.
RECURSIVE RemoveLoop_FirstOnly(_, _, _, _, _, _)
RemoveLoop_FirstOnly(h, cs, k, course, found, newCourses) ==
    IF k > Len(cs)
    THEN [heap |-> h, found |-> found, newCourses |-> newCourses]
    ELSE IF cs[k] = course /\ ~found
    THEN RemoveLoop_FirstOnly(h, cs, k + 1, course, TRUE, newCourses)
    ELSE LET r == AppendSlice(h, newCourses, cs[k])
         IN RemoveLoop_FirstOnly(r.heap, cs, k + 1, course, found, r.sl)

\* The loop of RemoveCourse over cs[k..]: found, and newCourses built by append.
RECURSIVE RemoveLoop(_, _, _, _, _, _)
RemoveLoop(h, cs, k, course, found, newCourses) ==
    IF k > Len(cs)
    THEN [heap |-> h, found |-> found, newCourses |-> newCourses]
    ELSE IF cs[k] = course
    THEN RemoveLoop(h, cs, k + 1, course, TRUE, newCourses)
    ELSE LET r == AppendSlice(h, newCourses, cs[k])
         IN RemoveLoop(r.heap, cs, k + 1, course, found, r.sl)

\* RemoveCourse without the check of found.
RemoveCourseF_NoFoundCheck(reg, studentID, course) ==
    IF studentID \notin DOMAIN reg.students
    THEN [reg |-> reg, err |-> StudentNotFound]
    ELSE LET r == RemoveLoop(reg.heap, Elems(reg.heap, reg.students[studentID].Courses),
                             1, course, FALSE, EmptySlice)
         IN [reg |-> [students |-> [reg.students EXCEPT
                                       ![studentID].Courses = r.newCourses],
                      heap |-> r.heap],
             err |-> Nil]

\* RemoveCourse: the registry after the call and the error returned.
RemoveCourseF(reg, studentID, course) ==
    IF studentID \notin DOMAIN reg.students
    THEN [reg |-> reg, err |-> StudentNotFound]
    ELSE LET student == reg.students[studentID]
             r == RemoveLoop(reg.heap, Elems(reg.heap, student.Courses), 1,
                             course, FALSE, EmptySlice)
         IN IF ~r.found
            THEN [reg |-> reg, err |-> CourseNotFound]
            ELSE [reg |-> [students |-> [reg.students EXCEPT
                                            ![studentID].Courses = r.newCourses],
                           heap |-> r.heap],
                  err |-> Nil]

\* The orders in which a range over the Students map may visit its keys.
Orders(students) ==
    {o \in [1..Cardinality(DOMAIN students) -> DOMAIN students] :
        \A i, j \in DOMAIN o : i # j => o[i] # o[j]}

\* ListStudents whose loop stops one student early.
ListStudents_StopsEarly(reg, o) ==
    [i \in 1..(Len(o) - 1) |-> reg.students[o[i]]]

\* ListStudents, the map visited in order o: the Student values, as stored.
ListStudents(reg, o) == [i \in DOMAIN o |-> reg.students[o[i]]]

\* The inner loop of CoursesCount entering a course it has not seen with 0.
RECURSIVE CountLoop_FromZero(_, _, _)
CountLoop_FromZero(courseCount, cs, k) ==
    IF k > Len(cs) THEN courseCount
    ELSE CountLoop_FromZero(Put(courseCount, cs[k],
                                IF cs[k] \in DOMAIN courseCount
                                THEN courseCount[cs[k]] + 1 ELSE 0),
                            cs, k + 1)

\* The inner loop of CoursesCount over cs[k..]: courseCount[course]++.
RECURSIVE CountLoop(_, _, _)
CountLoop(courseCount, cs, k) ==
    IF k > Len(cs) THEN courseCount
    ELSE CountLoop(Put(courseCount, cs[k],
                       IF cs[k] \in DOMAIN courseCount
                       THEN courseCount[cs[k]] + 1 ELSE 1),
                   cs, k + 1)

\* The outer loop of CoursesCount over the students o[i..].
RECURSIVE CountStudents(_, _, _, _)
CountStudents(reg, o, i, courseCount) ==
    IF i > Len(o) THEN courseCount
    ELSE CountStudents(reg, o, i + 1,
             CountLoop(courseCount, Elems(reg.heap, reg.students[o[i]].Courses), 1))

\* CoursesCount, the map visited in order o.
CoursesCount(reg, o) == CountStudents(reg, o, 1, <<>>)

\* ------------------------------------------------------------- memory
\* The arrays the stored course slices point to.
Live(students) == {students[i].Courses.arr : i \in DOMAIN students} \ {0}

\* The students whose course slice points to array a, and the longest of
\* these slices: the cells of a that the registry can read.
Holders(students, a) == {i \in DOMAIN students : students[i].Courses.arr = a}
Visible(students, a) ==
    IF Holders(students, a) = {} THEN 0
    ELSE MaxOf({students[i].Courses.len : i \in Holders(students, a)})

\* Addresses carry no meaning and unreachable memory is invisible: after a
\* call the arrays no stored slice points to are dropped, the others are
\* numbered by the first student that holds them, and the cells beyond every
\* stored slice's length read as "".
Rank(students, a) ==
    1 + Cardinality({b \in Live(students) :
            MinOf(Holders(students, b)) < MinOf(Holders(students, a))})

Collect(reg) ==
    LET st == reg.students
        At(n) == {a \in Live(st) : Rank(st, a) = n}
    IN [students |-> [i \in DOMAIN st |->
                         [st[i] EXCEPT !.Courses.arr =
                             IF @ = 0 THEN 0 ELSE Rank(st, @)]],
        heap |-> [n \in Addr |->
                     IF At(n) = {} THEN <<>>
                     ELSE LET a == CHOOSE x \in At(n) : TRUE
                          IN [k \in 1..Len(reg.heap[a]) |->
                                 IF k <= Visible(st, a) THEN reg.heap[a][k]
                                 ELSE ""]]]

\* ------------------------------------------------------------- callers
SeqsOf(n) == [1..n -> CourseNames]
SeqsUpTo(n) == UNION {SeqsOf(k) : k \in 0..n}

\* A slice of length Len(cs) over an array of the caller's own, at the free
\* address a and of capacity cap.
FreshSlice(h, a, cs, cap) ==
    [heap |-> [h EXCEPT ![a] =
                  [k \in 1..cap |-> IF k <= Len(cs) THEN cs[k] ELSE ""]],
     sl |-> [nil |-> FALSE, arr |-> a, len |-> Len(cs)]]

\* The slices a caller can make over an array of its own.
FreshAt(h, a) ==
    {FreshSlice(h, a, p[1], p[2]) :
        p \in {q \in SeqsUpTo(MaxInitLen) \X (1..MaxCap) : Len(q[1]) <= q[2]}}

\* A slice of length n over array a, which a stored course list uses and
\* whose first vis cells the stored lists reach; the caller has written new
\* into the cells they do not reach.
SharedSlice(reg, a, vis, n, new) ==
    [heap |-> [reg.heap EXCEPT ![a] =
                  [k \in 1..Len(reg.heap[a]) |->
                      IF vis < k /\ k <= n THEN new[k - vis]
                      ELSE reg.heap[a][k]]],
     sl |-> [nil |-> FALSE, arr |-> a, len |-> n]]

\* The slices a caller can make over array a.
SharedOver(reg, a, vis) ==
    UNION {{SharedSlice(reg, a, vis, n, new) :
                new \in SeqsOf(IF n > vis THEN n - vis ELSE 0)} :
           n \in 0..(IF Len(reg.heap[a]) < MaxLen THEN Len(reg.heap[a])
                     ELSE MaxLen)}

\* The course slices a caller can pass to AddStudent, each with the heap as
\* the caller has prepared it: nil; []string{}; a slice over an array of its
\* own; or a slice over an array that a stored course list uses (one it
\* passed before, or got from ListStudents).
CallerSlices(reg) ==
    {[heap |-> reg.heap, sl |-> NilSlice],
     [heap |-> reg.heap, sl |-> EmptySlice]}
    \cup FreshAt(reg.heap, MinOf(Addr \ Used(reg.heap)))
    \cup UNION {SharedOver(reg, a, Visible(reg.students, a)) :
                  a \in Used(reg.heap)}

\* ------------------------------------------------------------- actions
Reg == [students |-> Students, heap |-> heap]

NoTrail == [id |-> 0, courses |-> <<>>]

Init ==
    /\ Students = NewRegistry.students
    /\ heap = NewRegistry.heap
    /\ ret = [op |-> "NewRegistry", err |-> Nil]
    /\ added = <<>>
    /\ trail = NoTrail

\* What a call leaves in the registry's memory: nothing new when it returned
\* the registry untouched, else the registry it returned.
Store(r) ==
    IF r.reg = Reg
    THEN UNCHANGED <<Students, heap>>
    ELSE \E c \in {Collect(r.reg)} :
            /\ Students' = c.students
            /\ heap' = c.heap

\* AddStudent reads the course slice only once the ID and the name have
\* passed its checks: for a call that fails on them, one slice stands for all.
CallerInputs(id, name) ==
    IF AddStudentF(Reg, [ID |-> id, Name |-> name, Courses |-> NilSlice]).err # Nil
    THEN {[heap |-> heap, sl |-> NilSlice]}
    ELSE CallerSlices(Reg)

\* A caller calls AddStudent(Student{id, name, courses}).
AddStudent ==
    \E id \in IDs, name \in Names :
      \E in \in CallerInputs(id, name) :
        \E r \in {AddStudentF([students |-> Students, heap |-> in.heap],
                              [ID |-> id, Name |-> name, Courses |-> in.sl])} :
           /\ Store(r)
           /\ ret' = [op |-> "AddStudent", err |-> r.err]
           /\ added' = IF r.err = Nil THEN Put(added, id, name) ELSE added
           /\ trail' = IF r.err # Nil THEN trail
                       ELSE IF in.sl.len = 0 THEN [id |-> id, courses |-> <<>>]
                       ELSE NoTrail

\* A caller calls EnrollCourse(id, course).
EnrollCourse ==
    \E id \in IDs, course \in CourseNames :
        \E r \in {EnrollCourseF(Reg, id, course)} :
           /\ r.err = Nil => Students[id].Courses.len < MaxLen
           /\ Store(r)
           /\ ret' = [op |-> "EnrollCourse", err |-> r.err]
           /\ added' = added
           /\ trail' = IF r.err # Nil THEN trail
                       ELSE IF trail.id = id
                       THEN [trail EXCEPT !.courses = Append(@, course)]
                       ELSE NoTrail

\* A caller calls RemoveCourse(id, course).
RemoveCourse ==
    \E id \in IDs, course \in CourseNames :
        \E r \in {RemoveCourseF(Reg, id, course)} :
           /\ Store(r)
           /\ ret' = [op |-> "RemoveCourse", err |-> r.err]
           /\ added' = added
           /\ trail' = IF r.err = Nil THEN NoTrail ELSE trail

\* A caller calls ListStudents or CoursesCount: neither writes anything.
Query ==
    \E op \in {"ListStudents", "CoursesCount"} :
        /\ ret' = [op |-> op, err |-> Nil]
        /\ UNCHANGED <<Students, heap, added, trail>>

Next == AddStudent \/ EnrollCourse \/ RemoveCourse \/ Query

Spec == Init /\ [][Next]_vars

\* A caller writes course into an element of a course slice that it holds:
\* one that ListStudents returned, which is the stored header over the
\* stored array (so is the slice it passed to AddStudent).
CallerWrite ==
    \E id \in DOMAIN Students, course \in CourseNames :
        \E k \in 1..Students[id].Courses.len :
            /\ heap' = [heap EXCEPT ![Students[id].Courses.arr][k] = course]
            /\ ret' = [op |-> "CallerWrite", err |-> Nil]
            /\ trail' = NoTrail
            /\ UNCHANGED <<Students, added>>

NextCaller == Next \/ CallerWrite

\* The registry with a caller that also writes to the slices it holds.
SpecCaller == Init /\ [][NextCaller]_vars

\* ------------------------------------------------------------- views
\* What a caller can observe of a registry: every student's ID, name and
\* course list.
View(reg) ==
    [i \in DOMAIN reg.students |->
        [ID |-> reg.students[i].ID,
         Name |-> reg.students[i].Name,
         Courses |-> Elems(reg.heap, reg.students[i].Courses)]]

CoursesOf(id) == Elems(heap, Students[id].Courses)

\* The course list of student id in the registry a call returned.
CoursesIn(reg, id) == Elems(reg.heap, reg.students[id].Courses)

\* A call of AddStudent for id and name with the caller's slice in.
AddCall(id, name, in) ==
    AddStudentF([students |-> Students, heap |-> in.heap],
                [ID |-> id, Name |-> name, Courses |-> in.sl])

NoRepeat(cs) == \A i, j \in 1..Len(cs) : i # j => cs[i] # cs[j]

\* ------------------------------------------------------------- claims

\* C1: no stored student's course list contains the same course name twice.
C1_NoDuplicateCourses ==
    \A id \in DOMAIN Students : NoRepeat(CoursesOf(id))

\* C2: a call that returns an error leaves the whole registry as it was:
\* the students, their IDs, names and course lists (and the memory behind).
C2_FailureChangesNothing ==
    [][ret'.err # Nil =>
          /\ Students' = Students
          /\ heap' = heap
          /\ View([students |-> Students', heap |-> heap']) = View(Reg)]_vars

C2_Witness ==
    /\ ret.op = "EnrollCourse"
    /\ ret.err = AlreadyEnrolled
    /\ \E id \in DOMAIN Students : Len(CoursesOf(id)) = 2

\* C3: AddStudent with an ID that is present fails with DuplicateID whatever
\* the name and the course list, and the stored student keeps its name and
\* its course list.
C3_DuplicateID ==
    \A in \in CallerSlices(Reg) :
        \A id \in DOMAIN Students, name \in Names :
            LET r == AddCall(id, name, in)
            IN /\ r.err = DuplicateID
               /\ r.reg.students[id].ID = id
               /\ r.reg.students[id].Name = Students[id].Name
               /\ CoursesIn(r.reg, id) = CoursesOf(id)

C3_Witness ==
    /\ ret.op = "AddStudent"
    /\ ret.err = DuplicateID
    /\ \E id \in DOMAIN Students : CoursesOf(id) # <<>>

\* C4, as claimed: AddStudent with an empty name fails with EmptyName in
\* every registry state and for every ID, present or not.
C4_EmptyNameAlways ==
    \A in \in CallerSlices(Reg) : \A id \in IDs :
        AddCall(id, "", in).err = EmptyName

\* C4, amended: AddStudent with an empty name fails with EmptyName when the
\* ID is not present, and with DuplicateID when it is; the registry is
\* unchanged either way.
C4_EmptyNameNewID ==
    \A v \in {View(Reg)} : \A in \in CallerSlices(Reg) : \A id \in IDs :
        \A r \in {AddCall(id, "", in)} :
           /\ r.err = (IF id \in DOMAIN Students THEN DuplicateID ELSE EmptyName)
           /\ View(r.reg) = v

C4_Witness ==
    /\ ret.op = "AddStudent"
    /\ ret.err = EmptyName
    /\ Students # <<>>

\* C5: ListStudents returns exactly one entry for each student whose
\* AddStudent call succeeded and no other: the IDs it returns are the IDs
\* added, each once, each with the (non-empty) name given to AddStudent.
C5_ListIsWhatWasAdded ==
    \A o \in Orders(Students) :
        LET l == ListStudents(Reg, o)
        IN /\ {l[i].ID : i \in DOMAIN l} = DOMAIN added
           /\ Len(l) = Cardinality(DOMAIN added)
           /\ \A i \in DOMAIN l : l[i].Name = added[l[i].ID] /\ l[i].Name # ""

C5_Witness ==
    /\ ret.op = "ListStudents"
    /\ DOMAIN added = IDs

\* C6: EnrollCourse(id, c) fails with StudentNotFound if id is absent, else
\* with EmptyCourseName if c is empty, else with AlreadyEnrolled if c is in
\* the student's list; enrolling the same course twice in a row fails the
\* second time with AlreadyEnrolled, and that call leaves the length of the
\* course list as it was.
C6_EnrollErrors ==
    \A id \in IDs, c \in CourseNames :
        LET r == EnrollCourseF(Reg, id, c)
        IN /\ id \notin DOMAIN Students => r.err = StudentNotFound
           /\ id \in DOMAIN Students /\ c = "" => r.err = EmptyCourseName
           /\ id \in DOMAIN Students /\ c # "" /\ Enrolled(CoursesOf(id), c) =>
                 /\ r.err = AlreadyEnrolled
                 /\ Len(CoursesIn(r.reg, id)) = Len(CoursesOf(id))
           /\ r.err = Nil =>
                 LET again == EnrollCourseF(r.reg, id, c)
                 IN /\ again.err = AlreadyEnrolled
                    /\ Len(CoursesIn(again.reg, id)) = Len(CoursesIn(r.reg, id))

C6_Witness ==
    /\ ret.op = "EnrollCourse"
    /\ ret.err = AlreadyEnrolled
    /\ \E id \in DOMAIN Students : Enrolled(CoursesOf(id), "Go")

\* C7: a successful EnrollCourse(id, c) makes the student's course list the
\* previous list with c appended at the end; so a student added with no
\* courses and then only enrolled, successfully, in c1, ..., cn is listed by
\* ListStudents with the courses [c1, ..., cn], in call order.
C7_EnrollAppends ==
    /\ \A id \in IDs, c \in CourseNames :
           LET r == EnrollCourseF(Reg, id, c)
           IN r.err = Nil => CoursesIn(r.reg, id) = Append(CoursesOf(id), c)
    /\ trail.id # 0 =>
           \A o \in Orders(Students) :
               LET l == ListStudents(Reg, o)
               IN \E i \in DOMAIN l :
                      /\ l[i].ID = trail.id
                      /\ Elems(heap, l[i].Courses) = trail.courses

C7_Witness ==
    /\ ret.op = "ListStudents"
    /\ trail.id # 0
    /\ trail.courses = <<"Go", "DB">>
    /\ DOMAIN Students = IDs

\* The sequence cs without its k-th element.
Without(cs, k) == [i \in 1..(Len(cs) - 1) |-> IF i < k THEN cs[i] ELSE cs[i + 1]]

\* C8: a successful RemoveCourse(id, c) removes exactly one entry equal to c
\* from the student's course list (the list is one element shorter) and
\* keeps the other entries in their order.
C8_RemovesExactlyOne ==
    \A id \in IDs, c \in CourseNames :
        LET r == RemoveCourseF(Reg, id, c)
        IN r.err = Nil =>
              /\ Len(CoursesIn(r.reg, id)) = Len(CoursesOf(id)) - 1
              /\ \E k \in 1..Len(CoursesOf(id)) :
                     /\ CoursesOf(id)[k] = c
                     /\ CoursesIn(r.reg, id) = Without(CoursesOf(id), k)

\* C9: RemoveCourse(id, c) fails with StudentNotFound if id is absent, and
\* with CourseNotFound if the student exists and c, empty or not, is not in
\* its course list; after that failure the course list is what it was.
C9_RemoveErrors ==
    \A id \in IDs, c \in CourseNames :
        LET r == RemoveCourseF(Reg, id, c)
        IN /\ id \notin DOMAIN Students => r.err = StudentNotFound
           /\ id \in DOMAIN Students /\ ~Enrolled(CoursesOf(id), c) =>
                 /\ r.err = CourseNotFound
                 /\ CoursesIn(r.reg, id) = CoursesOf(id)

C9_Witness ==
    /\ ret.op = "RemoveCourse"
    /\ ret.err = CourseNotFound
    /\ \E id \in DOMAIN Students :
           Len(CoursesOf(id)) = 2 /\ ~Enrolled(CoursesOf(id), "")

\* C10: a successful EnrollCourse(id, X) followed at once by
\* RemoveCourse(id, X) succeeds, restores the course list of student id and
\* leaves the rest of the registry as it was.
C10_EnrollRemoveRoundTrip ==
    \A id \in IDs, c \in CourseNames :
        LET r1 == EnrollCourseF(Reg, id, c)
        IN r1.err = Nil =>
              LET r2 == RemoveCourseF(r1.reg, id, c)
              IN /\ r2.err = Nil
                 /\ View(r2.reg) = View(Reg)

\* The course names that occur in some stored course list of reg.
Occurring(reg) ==
    {c \in CourseNames :
        \E i \in DOMAIN reg.students : Enrolled(CoursesIn(reg, i), c)}

\* The students of reg whose course list contains c.
Enrollees(reg, c) ==
    {i \in DOMAIN reg.students : Enrolled(CoursesIn(reg, i), c)}

\* C11: for every course name c in its result, CoursesCount maps c to the
\* number of distinct students whose course list contains c.
C11_CountsDistinctStudents ==
    \A o \in Orders(Students) :
        \A cc \in {CoursesCount(Reg, o)} :
            \A c \in DOMAIN cc : cc[c] = Cardinality(Enrollees(Reg, c))

\* C12: the result of CoursesCount holds no course with count 0: its keys
\* are exactly the course names that occur in some student's course list,
\* so a course whose last enrollment RemoveCourse removed is not a key of
\* the next result.
C12_NoZeroCount ==
    /\ \A o \in Orders(Students) :
           \A cc \in {CoursesCount(Reg, o)} :
               /\ DOMAIN cc = Occurring(Reg)
               /\ \A c \in DOMAIN cc : cc[c] >= 1
    /\ \A id \in IDs, c \in CourseNames :
           \A r \in {RemoveCourseF(Reg, id, c)} :
               r.err = Nil /\ Enrollees(Reg, c) = {id} =>
                   \A o \in Orders(r.reg.students) :
                       c \notin DOMAIN CoursesCount(r.reg, o)

C12_Witness ==
    /\ ret.op = "RemoveCourse"
    /\ ret.err = Nil
    /\ DOMAIN Students = IDs
    /\ Occurring(Reg) = {"DB"}

\* This step is a successful EnrollCourse or RemoveCourse for student id.
OperationOn(id) ==
    \E c \in CourseNames :
        \/ /\ ret'.op = "EnrollCourse"
           /\ \E r \in {EnrollCourseF(Reg, id, c)} :
                 /\ r.err = Nil
                 /\ Collect(r.reg) = [students |-> Students', heap |-> heap']
        \/ /\ ret'.op = "RemoveCourse"
           /\ \E r \in {RemoveCourseF(Reg, id, c)} :
                 /\ r.err = Nil
                 /\ Collect(r.reg) = [students |-> Students', heap |-> heap']

\* C13: the registry shares no course sequence with its callers: a stored
\* course list changes only in a registry operation on that student, never
\* because a caller writes to a sequence it passed to AddStudent or got from
\* ListStudents, or passed it again for a second student.
C13_ChangesOnlyThroughRegistry ==
    [][\A id \in DOMAIN Students :
          CoursesIn([students |-> Students', heap |-> heap'], id) # CoursesOf(id)
              => OperationOn(id)]_vars

\* C14: every stored student has a non-empty name and is stored under its
\* own ID, so ListStudents returns no two entries with the same ID and none
\* with an empty name; and a successful AddStudent given a nil course list
\* stores an empty, non-nil course sequence.
C14_StoredStudents ==
    /\ \A k \in DOMAIN Students :
           Students[k].Name # "" /\ Students[k].ID = k
    /\ \A o \in Orders(Students) :
           \A l \in {ListStudents(Reg, o)} :
               /\ \A i, j \in DOMAIN l : i # j => l[i].ID # l[j].ID
               /\ \A i \in DOMAIN l : l[i].Name # ""
    /\ \A id \in IDs, name \in Names :
           \A r \in {AddCall(id, name, [heap |-> heap, sl |-> NilSlice])} :
               r.err = Nil =>
                   /\ ~r.reg.students[id].Courses.nil
                   /\ CoursesIn(r.reg, id) = <<>>
    /\ \A k \in DOMAIN Students : ~Students[k].Courses.nil

C14_Witness ==
    /\ ret.op = "AddStudent"
    /\ ret.err = Nil
    /\ DOMAIN Students = IDs
    /\ \E k \in IDs : trail.id = k /\ Students[k].Courses = EmptySlice

AddErrors == {DuplicateID, EmptyName}
EnrollErrors == {StudentNotFound, EmptyCourseName, AlreadyEnrolled}
RemoveErrors == {StudentNotFound, CourseNotFound}

\* C15: a failing call returns one of the errors listed for its operation,
\* each failure cause has an error of its own, and a call returns no error
\* exactly when none of its failure conditions holds.
C15_ErrorKinds ==
    /\ Cardinality(AddErrors \cup EnrollErrors \cup RemoveErrors \cup {Nil}) = 7
    /\ \A in \in CallerSlices(Reg) : \A id \in IDs, name \in Names :
           \A e \in {AddCall(id, name, in).err} :
               /\ e \in AddErrors \cup {Nil}
               /\ e = Nil <=> id \notin DOMAIN Students /\ name # ""
               /\ e = DuplicateID => id \in DOMAIN Students
               /\ e = EmptyName => name = ""
    /\ \A id \in IDs, c \in CourseNames :
           \A e \in {EnrollCourseF(Reg, id, c).err} :
               /\ e \in EnrollErrors \cup {Nil}
               /\ e = Nil <=> /\ id \in DOMAIN Students
                              /\ c # ""
                              /\ ~Enrolled(CoursesOf(id), c)
               /\ e = StudentNotFound => id \notin DOMAIN Students
               /\ e = EmptyCourseName => c = ""
               /\ e = AlreadyEnrolled => Enrolled(CoursesOf(id), c)
    /\ \A id \in IDs, c \in CourseNames :
           \A e \in {RemoveCourseF(Reg, id, c).err} :
               /\ e \in RemoveErrors \cup {Nil}
               /\ e = Nil <=> id \in DOMAIN Students /\ Enrolled(CoursesOf(id), c)
               /\ e = StudentNotFound => id \notin DOMAIN Students
               /\ e = CourseNotFound => ~Enrolled(CoursesOf(id), c)

C15_Witness ==
    /\ ret.op = "RemoveCourse"
    /\ ret.err = StudentNotFound
    /\ Students # <<>>

\* What student id has in reg besides its course list, and all that the
\* other students have.
Frame(reg, id) ==
    [i \in DOMAIN reg.students |->
        [ID |-> reg.students[i].ID,
         Name |-> reg.students[i].Name,
         Courses |-> IF i = id THEN <<>> ELSE CoursesIn(reg, i)]]

\* C16: a successful EnrollCourse(id, c) or RemoveCourse(id, c) changes only
\* the course list of student id: the IDs, the names and every other
\* student's course list stay, also when two students were added with the
\* same course sequence; ListStudents and CoursesCount change nothing.
C16_OnlyThatCourseList ==
    \A id \in IDs, c \in CourseNames :
           /\ \A r \in {EnrollCourseF(Reg, id, c)} :
                  r.err = Nil => Frame(r.reg, id) = Frame(Reg, id)
           /\ \A r \in {RemoveCourseF(Reg, id, c)} :
                  r.err = Nil => Frame(r.reg, id) = Frame(Reg, id)

\* The part of C16 on the two queries, which holds: a ListStudents or
\* CoursesCount step leaves the students and the memory behind them as they
\* were.
C16_QueriesChangeNothing ==
    [][ret'.op \in {"ListStudents", "CoursesCount"} =>
          Students' = Students /\ heap' = heap]_vars

\* C17: after a successful RemoveCourse(id, c), c occurs nowhere in the
\* course list of student id, so RemoveCourse(id, c) at once after it fails
\* with CourseNotFound and EnrollCourse(id, c), c not empty, succeeds.
C17_RemovedIsGone ==
    \A id \in IDs, c \in CourseNames :
        \A r \in {RemoveCourseF(Reg, id, c)} :
            r.err = Nil =>
                /\ ~Enrolled(CoursesIn(r.reg, id), c)
                /\ RemoveCourseF(r.reg, id, c).err = CourseNotFound
                /\ c # "" => EnrollCourseF(r.reg, id, c).err = Nil

C17_Witness ==
    /\ ret.op = "RemoveCourse"
    /\ ret.err = Nil
    /\ \E id \in DOMAIN Students : CoursesOf(id) = <<"DB">>

\* C18: no stored student's course list contains the empty course name.
C18_NoEmptyCourseName ==
    \A id \in DOMAIN Students : ~Enrolled(CoursesOf(id), "")

\* The sum of the counts of cc over the course names in S.
RECURSIVE SumCounts(_, _)
SumCounts(cc, S) ==
    IF S = {} THEN 0
    ELSE LET c == CHOOSE x \in S : TRUE
         IN cc[c] + SumCounts(cc, S \ {c})

\* The sum of the lengths of the course lists of the students in S.
RECURSIVE SumLens(_, _)
SumLens(reg, S) ==
    IF S = {} THEN 0
    ELSE LET i == CHOOSE x \in S : TRUE
         IN reg.students[i].Courses.len + SumLens(reg, S \ {i})

\* The count of course c in the result cc of CoursesCount.
CountOf(cc, c) == IF c \in DOMAIN cc THEN cc[c] ELSE 0

\* C19: the counts that CoursesCount returns add up to the lengths of all
\* course lists, and a successful EnrollCourse raises the count of one
\* course by 1 and leaves every other count as it was.
C19_CountsFollowEnrolls ==
    \A o \in Orders(Students) :
        \A cc \in {CoursesCount(Reg, o)} :
            /\ SumCounts(cc, DOMAIN cc) = SumLens(Reg, DOMAIN Students)
            /\ \A id \in IDs, c \in CourseNames :
                   \A r \in {EnrollCourseF(Reg, id, c)} :
                       r.err = Nil =>
                           \A after \in {CoursesCount(r.reg, o)} :
                               \A x \in CourseNames :
                                   CountOf(after, x) =
                                       CountOf(cc, x) + (IF x = c THEN 1 ELSE 0)

====
